---- MODULE Spec2Model ----
(***************************************************************************)
(* In-memory todo application (Phase I): the Task record, the TaskList     *)
(* store (src/models/task.py) and the TodoService validation layer         *)
(* (src/services/todo_service.py).                                         *)
(*                                                                         *)
(* A description is a Python str, modelled as a sequence of one-character  *)
(* strings so that str.strip() is computed rather than assumed.            *)
(* None is the empty sequence and an Optional[Task] is a sequence of at    *)
(* most one Task record.                                                   *)
(***************************************************************************)
EXTENDS Integers, Sequences, FiniteSets, TLC

\* ---------------------------------------------------------------- bounds
\* number of successful add_task calls explored
MaxAdds == 3
\* number of mutations a caller makes through a list get_all_tasks returned
MaxMutations == 1

\* ---------------------------------------------------------------- inputs
\* what str.strip() (no argument) removes
Whitespace == {" ", "\t", "\n", "\r"}

\* the descriptions a caller may pass: the empty one, two blank ones, a plain
\* one and one padded with whitespace on both sides
Descriptions ==
    { <<>>,
      <<" ">>,
      <<" ", "\t">>,
      <<"a">>,
      <<" ", "b", " ">> }

\* every task id a caller may pass (a positive integer): stored, deleted or
\* never issued
TaskIds == 1..(MaxAdds + 1)

\* ---------------------------------------------------------------- state
VARIABLES
    _task_list, \* TodoService._task_list: the TaskList, a record of its fields
                \*   tasks    - the list of Task records, in insertion order
                \*   _next_id - the id the next add will assign
    last,       \* the most recent service call: its arguments and its outcome
    returned,   \* history: ids of the Tasks returned by add_task, in call order
    deleted,    \* history: ids for which delete_task returned True
    caller,     \* the caller of get_all_tasks: the list it was handed and the
                \* number of mutations it has made through it
    ui          \* the command-line session: the prompt main_loop waits at,
                \* the input it got last and what it printed for it

vars == <<_task_list, last, returned, deleted, caller, ui>>

\* ---------------------------------------------------------------- Task
None == <<>>

\* Task(id=..., description=...) with the dataclass default is_complete=False
Task(id, description) ==
    [id |-> id, description |-> description, is_complete |-> FALSE]

\* ---------------------------------------------------------------- str
RECURSIVE lstrip(_)
lstrip(s) ==
    IF s = <<>> THEN <<>>
    ELSE IF Head(s) \in Whitespace THEN lstrip(Tail(s))
    ELSE s

RECURSIVE rstrip(_)
rstrip(s) ==
    IF s = <<>> THEN <<>>
    ELSE IF s[Len(s)] \in Whitespace THEN rstrip(SubSeq(s, 1, Len(s) - 1))
    ELSE s

\* str.strip()
strip(s) == rstrip(lstrip(s))

\* the guard of add_task and update_task:
\*   not description or description.strip() == ""
IsInvalidMissingStrip(description) == description = <<>>
IsInvalid(description) ==
    description = <<>> \/ strip(description) = <<>>

\* ---------------------------------------------------------------- TaskList
\* A method takes self (the TaskList record) and yields the record
\* [self |-> the TaskList after the call, ret |-> the value returned].

\* TaskList.__init__
TaskList == [tasks |-> <<>>, _next_id |-> 1]

\* index of the first task whose id is task_id, 0 when there is none:
\* the `for task in self.tasks: if task.id == task_id` scan
RECURSIVE ScanFrom(_, _, _)
ScanFrom(ts, task_id, i) ==
    IF i > Len(ts) THEN 0
    ELSE IF ts[i].id = task_id THEN i
    ELSE ScanFrom(ts, task_id, i + 1)

IndexOf(ts, task_id) == ScanFrom(ts, task_id, 1)

\* TaskList.get_by_id: the first match, or None
get_by_id(self, task_id) ==
    LET i == IndexOf(self.tasks, task_id)
    IN  IF i = 0 THEN None ELSE <<self.tasks[i]>>

\* TaskList.get_all: self.tasks.copy()
get_all(self) == [i \in 1..Len(self.tasks) |-> self.tasks[i]]

\* TaskList.add
TaskList_addNoIncrement(self, description) ==
    LET task == Task(self._next_id, description)
    IN  [self |-> [self EXCEPT !.tasks = Append(self.tasks, task)],
         ret |-> task]
TaskList_addLenId(self, description) ==
    LET task == Task(Len(self.tasks) + 1, description)
    IN  [self |-> [tasks |-> Append(self.tasks, task),
                   _next_id |-> self._next_id + 1],
         ret |-> task]
TaskList_addFront(self, description) ==
    LET task == Task(self._next_id, description)
    IN  [self |-> [tasks |-> <<task>> \o self.tasks,
                   _next_id |-> self._next_id + 1],
         ret |-> task]
TaskList_add(self, description) ==
    LET task == Task(self._next_id, description)
    IN  [self |-> [tasks |-> Append(self.tasks, task),
                   _next_id |-> self._next_id + 1],
         ret |-> task]

\* TaskList.update: the task found is mutated in place
TaskList_updateResetFlag(self, task_id, new_description) ==
    LET i == IndexOf(self.tasks, task_id)
    IN  IF i # 0
        THEN [self |-> [self EXCEPT
                          !.tasks[i] = Task(task_id, new_description)],
              ret |-> TRUE]
        ELSE [self |-> self, ret |-> FALSE]
TaskList_update(self, task_id, new_description) ==
    LET i == IndexOf(self.tasks, task_id)
    IN  IF i # 0
        THEN [self |-> [self EXCEPT !.tasks[i].description = new_description],
              ret |-> TRUE]
        ELSE [self |-> self, ret |-> FALSE]

\* del self.tasks[i]
DelAt(ts, i) == SubSeq(ts, 1, i - 1) \o SubSeq(ts, i + 1, Len(ts))

\* TaskList.delete: removes the first match
TaskList_deletePop(self, task_id) ==
    LET i == IndexOf(self.tasks, task_id)
    IN  IF i # 0
        THEN [self |-> [self EXCEPT
                          !.tasks = DelAt(self.tasks, Len(self.tasks))],
              ret |-> TRUE]
        ELSE [self |-> self, ret |-> FALSE]
TaskList_deleteRewind(self, task_id) ==
    LET i == IndexOf(self.tasks, task_id)
    IN  IF i # 0
        THEN [self |-> [tasks |-> DelAt(self.tasks, i),
                        _next_id |-> IF task_id = self._next_id - 1
                                     THEN task_id ELSE self._next_id],
              ret |-> TRUE]
        ELSE [self |-> self, ret |-> FALSE]
TaskList_deletePopLast(self, task_id) ==
    LET i == IndexOf(self.tasks, task_id)
    IN  IF i # 0
        THEN [self |-> [self EXCEPT !.tasks = DelAt(self.tasks, i)],
              ret |-> TRUE]
        ELSE [self |-> [self EXCEPT
                          !.tasks = DelAt(self.tasks, Len(self.tasks))],
              ret |-> FALSE]
TaskList_delete(self, task_id) ==
    LET i == IndexOf(self.tasks, task_id)
    IN  IF i # 0
        THEN [self |-> [self EXCEPT !.tasks = DelAt(self.tasks, i)],
              ret |-> TRUE]
        ELSE [self |-> self, ret |-> FALSE]

\* TaskList.mark_complete
TaskList_mark_completeStrict(self, task_id) ==
    LET i == IndexOf(self.tasks, task_id)
    IN  IF i # 0 /\ ~self.tasks[i].is_complete
        THEN [self |-> [self EXCEPT !.tasks[i].is_complete = TRUE],
              ret |-> TRUE]
        ELSE [self |-> self, ret |-> FALSE]
TaskList_mark_complete(self, task_id) ==
    LET i == IndexOf(self.tasks, task_id)
    IN  IF i # 0
        THEN [self |-> [self EXCEPT !.tasks[i].is_complete = TRUE],
              ret |-> TRUE]
        ELSE [self |-> self, ret |-> FALSE]

\* TaskList.mark_incomplete
TaskList_mark_incompleteAll(self, task_id) ==
    LET i == IndexOf(self.tasks, task_id)
    IN  IF i # 0
        THEN [self |-> [self EXCEPT
                          !.tasks = [k \in 1..Len(self.tasks) |->
                                       [self.tasks[k] EXCEPT
                                          !.is_complete = FALSE]]],
              ret |-> TRUE]
        ELSE [self |-> self, ret |-> FALSE]
TaskList_mark_incomplete(self, task_id) ==
    LET i == IndexOf(self.tasks, task_id)
    IN  IF i # 0
        THEN [self |-> [self EXCEPT !.tasks[i].is_complete = FALSE],
              ret |-> TRUE]
        ELSE [self |-> self, ret |-> FALSE]

\* ---------------------------------------------------------------- TodoService
\* A method takes tl (the service's _task_list) and yields the record
\* [self |-> the _task_list after the call, raised |-> the exception raised or
\*  "none", ret |-> the value returned].

\* TodoService.add_task: validation, then TaskList.add
add_taskCountFirst(tl, description) ==
    IF IsInvalid(description)
    THEN [self |-> [tl EXCEPT !._next_id = @ + 1], raised |-> "ValueError",
          ret |-> None]
    ELSE LET r == TaskList_add(tl, description)
         IN  [self |-> r.self, raised |-> "none", ret |-> <<r.ret>>]
add_taskStripped(tl, description) ==
    IF IsInvalid(description)
    THEN [self |-> tl, raised |-> "ValueError", ret |-> None]
    ELSE LET r == TaskList_add(tl, strip(description))
         IN  [self |-> r.self, raised |-> "none", ret |-> <<r.ret>>]
add_task(tl, description) ==
    IF IsInvalid(description)
    THEN [self |-> tl, raised |-> "ValueError", ret |-> None]
    ELSE LET r == TaskList_add(tl, description)
         IN  [self |-> r.self, raised |-> "none", ret |-> <<r.ret>>]

\* TodoService.get_all_tasks
get_all_tasks(tl) == get_all(tl)

\* TodoService.get_task
get_taskByPosition(tl, task_id) ==
    IF task_id \in 1..Len(tl.tasks) THEN <<tl.tasks[task_id]>> ELSE None
get_task(tl, task_id) == get_by_id(tl, task_id)

\* TodoService.update_task: validation, then TaskList.update
update_taskUnvalidated(tl, task_id, new_description) ==
    LET r == TaskList_update(tl, task_id, new_description)
    IN  [self |-> r.self, raised |-> "none", ret |-> r.ret]
update_taskLookupFirst(tl, task_id, new_description) ==
    IF get_by_id(tl, task_id) = None
    THEN [self |-> tl, raised |-> "none", ret |-> FALSE]
    ELSE IF IsInvalid(new_description)
    THEN [self |-> tl, raised |-> "ValueError", ret |-> FALSE]
    ELSE LET r == TaskList_update(tl, task_id, new_description)
         IN  [self |-> r.self, raised |-> "none", ret |-> r.ret]
update_task(tl, task_id, new_description) ==
    IF IsInvalid(new_description)
    THEN [self |-> tl, raised |-> "ValueError", ret |-> FALSE]
    ELSE LET r == TaskList_update(tl, task_id, new_description)
         IN  [self |-> r.self, raised |-> "none", ret |-> r.ret]

\* TodoService.delete_task
delete_task(tl, task_id) == TaskList_delete(tl, task_id)

\* TodoService.mark_complete
mark_complete(tl, task_id) == TaskList_mark_complete(tl, task_id)

\* TodoService.mark_incomplete
mark_incomplete(tl, task_id) == TaskList_mark_incomplete(tl, task_id)

\* ---------------------------------------------------------------- calls
\* the record of a service call: op, arguments, exception raised ("none" when
\* the call returned), and the value returned in the field of its type
Call(op, task_id, description, raised, ret_bool, ret_task, ret_list) ==
    [op |-> op, task_id |-> task_id, description |-> description,
     raised |-> raised, ret_bool |-> ret_bool, ret_task |-> ret_task,
     ret_list |-> ret_list]

\* the state of the session: pc is the prompt waited at ("sleep" is the pause
\* of handle_choice after a handler), task_id the id the running handler
\* read, at/input/line the prompt answered last and the answer (a line, or
\* the exception input() raised), out the messages and rows the task rows
\* printed for it
Ui(pc, task_id, at, input, line, out, rows) ==
    [pc |-> pc, task_id |-> task_id, at |-> at, input |-> input,
     line |-> line, out |-> out, rows |-> rows]

\* main_loop up to the first prompt: service = TodoService(), the banner,
\* display_menu()
Init ==
    /\ _task_list = TaskList
    /\ last = Call("init", 0, <<>>, "none", FALSE, None, <<>>)
    /\ returned = <<>>
    /\ deleted = {}
    /\ caller = [tasks |-> <<>>, mutations |-> 0]
    /\ ui = Ui("menu", 0, "start", "none", <<>>,
               <<"Welcome to Todo List Manager!">>, <<>>)

\* a call of add_task; successful adds are explored up to MaxAdds
AddTask(description) ==
    /\ IsInvalid(description) \/ Len(returned) < MaxAdds
    /\ LET r == add_task(_task_list, description)
       IN  /\ _task_list' = r.self
           /\ last' = Call("add_task", 0, description, r.raised, FALSE,
                           r.ret, <<>>)
           /\ returned' = IF r.raised = "none"
                          THEN Append(returned, r.ret[1].id)
                          ELSE returned
    /\ UNCHANGED <<deleted, caller, ui>>

\* a call of get_all_tasks
GetAllTasks ==
    /\ last' = Call("get_all_tasks", 0, <<>>, "none", FALSE, None,
                    get_all_tasks(_task_list))
    /\ UNCHANGED <<_task_list, returned, deleted, caller, ui>>

\* a call of get_task
GetTask(task_id) ==
    /\ last' = Call("get_task", task_id, <<>>, "none", FALSE,
                    get_task(_task_list, task_id), <<>>)
    /\ UNCHANGED <<_task_list, returned, deleted, caller, ui>>

\* a call of update_task
UpdateTask(task_id, new_description) ==
    /\ LET r == update_task(_task_list, task_id, new_description)
       IN  /\ _task_list' = r.self
           /\ last' = Call("update_task", task_id, new_description, r.raised,
                           r.ret, None, <<>>)
    /\ UNCHANGED <<returned, deleted, caller, ui>>

\* a call of delete_task
DeleteTask(task_id) ==
    /\ LET r == delete_task(_task_list, task_id)
       IN  /\ _task_list' = r.self
           /\ last' = Call("delete_task", task_id, <<>>, "none", r.ret,
                           None, <<>>)
           /\ deleted' = IF r.ret THEN deleted \cup {task_id} ELSE deleted
    /\ UNCHANGED <<returned, caller, ui>>

\* a call of mark_complete
MarkComplete(task_id) ==
    /\ LET r == mark_complete(_task_list, task_id)
       IN  /\ _task_list' = r.self
           /\ last' = Call("mark_complete", task_id, <<>>, "none", r.ret,
                           None, <<>>)
    /\ UNCHANGED <<returned, deleted, caller, ui>>

\* a call of mark_incomplete
MarkIncomplete(task_id) ==
    /\ LET r == mark_incomplete(_task_list, task_id)
       IN  /\ _task_list' = r.self
           /\ last' = Call("mark_incomplete", task_id, <<>>, "none", r.ret,
                           None, <<>>)
    /\ UNCHANGED <<returned, deleted, caller, ui>>

Next ==
    \/ \E d \in Descriptions : AddTask(d)
    \/ GetAllTasks
    \/ \E id \in TaskIds : GetTask(id)
    \/ \E id \in TaskIds, d \in Descriptions : UpdateTask(id, d)
    \/ \E id \in TaskIds : DeleteTask(id)
    \/ \E id \in TaskIds : MarkComplete(id)
    \/ \E id \in TaskIds : MarkIncomplete(id)

Spec == Init /\ [][Next]_vars

\* ---------------------------------------------------------------- aliasing
\* Python lists hold references.  caller.tasks is the list a caller got from
\* get_all_tasks, as a sequence of references to Task objects: n >= 1 is the
\* Task object stored at position n of _task_list.tasks, 0 is a Task object
\* the store does not hold (removed since, or made by the caller).

\* the Task objects in the list TaskList.get_all returns: list.copy() makes a
\* new list of the same objects
get_all_refs(self) == [i \in 1..Len(self.tasks) |-> i]

\* the references after the store removed the object at position p
Rebase(refs, p) ==
    [k \in 1..Len(refs) |->
        IF refs[k] = p THEN 0
        ELSE IF refs[k] > p THEN refs[k] - 1
        ELSE refs[k]]

\* assignments to the attributes of the Task object behind a reference:
\* Task is a plain (not frozen) dataclass
SetDescription(tl, ref, description) ==
    IF ref = 0 THEN tl ELSE [tl EXCEPT !.tasks[ref].description = description]
SetIsComplete(tl, ref, is_complete) ==
    IF ref = 0 THEN tl ELSE [tl EXCEPT !.tasks[ref].is_complete = is_complete]
SetId(tl, ref, id) ==
    IF ref = 0 THEN tl ELSE [tl EXCEPT !.tasks[ref].id = id]

\* tasks = service.get_all_tasks(), the caller keeps the list
CallerGetAllTasks ==
    /\ caller' = [caller EXCEPT !.tasks = get_all_refs(_task_list)]
    /\ UNCHANGED <<_task_list, last, returned, deleted, ui>>

\* service calls made while the caller holds a list
AliasAddTask(description) ==
    /\ IsInvalid(description) \/ _task_list._next_id <= MaxAdds
    /\ _task_list' = add_task(_task_list, description).self
    /\ UNCHANGED <<last, returned, deleted, caller, ui>>

AliasUpdateTask(task_id, new_description) ==
    /\ _task_list' = update_task(_task_list, task_id, new_description).self
    /\ UNCHANGED <<last, returned, deleted, caller, ui>>

AliasDeleteTask(task_id) ==
    /\ LET r == delete_task(_task_list, task_id)
           p == IndexOf(_task_list.tasks, task_id)
       IN  /\ _task_list' = r.self
           /\ caller' = IF r.ret
                        THEN [caller EXCEPT !.tasks = Rebase(@, p)]
                        ELSE caller
    /\ UNCHANGED <<last, returned, deleted, ui>>

AliasMarkComplete(task_id) ==
    /\ _task_list' = mark_complete(_task_list, task_id).self
    /\ UNCHANGED <<last, returned, deleted, caller, ui>>

AliasMarkIncomplete(task_id) ==
    /\ _task_list' = mark_incomplete(_task_list, task_id).self
    /\ UNCHANGED <<last, returned, deleted, caller, ui>>

\* del tasks[k - 1] on the returned list
CallerDel(k) ==
    /\ caller.mutations < MaxMutations
    /\ caller' = [tasks |-> DelAt(caller.tasks, k),
                  mutations |-> caller.mutations + 1]
    /\ UNCHANGED <<_task_list, last, returned, deleted, ui>>

\* tasks.append(Task(...)) on the returned list
CallerAppend ==
    /\ caller.mutations < MaxMutations
    /\ caller' = [tasks |-> Append(caller.tasks, 0),
                  mutations |-> caller.mutations + 1]
    /\ UNCHANGED <<_task_list, last, returned, deleted, ui>>

\* tasks[k - 1].description = description
CallerSetDescription(k, description) ==
    /\ caller.mutations < MaxMutations
    /\ _task_list' = SetDescription(_task_list, caller.tasks[k], description)
    /\ caller' = [caller EXCEPT !.mutations = @ + 1]
    /\ UNCHANGED <<last, returned, deleted, ui>>

\* tasks[k - 1].is_complete = is_complete
CallerSetIsComplete(k, is_complete) ==
    /\ caller.mutations < MaxMutations
    /\ _task_list' = SetIsComplete(_task_list, caller.tasks[k], is_complete)
    /\ caller' = [caller EXCEPT !.mutations = @ + 1]
    /\ UNCHANGED <<last, returned, deleted, ui>>

\* tasks[k - 1].id = id
CallerSetId(k, id) ==
    /\ caller.mutations < MaxMutations
    /\ _task_list' = SetId(_task_list, caller.tasks[k], id)
    /\ caller' = [caller EXCEPT !.mutations = @ + 1]
    /\ UNCHANGED <<last, returned, deleted, ui>>

NextAlias ==
    \/ CallerGetAllTasks
    \/ \E d \in Descriptions : AliasAddTask(d)
    \/ \E id \in TaskIds, d \in Descriptions : AliasUpdateTask(id, d)
    \/ \E id \in TaskIds : AliasDeleteTask(id)
    \/ \E id \in TaskIds : AliasMarkComplete(id)
    \/ \E id \in TaskIds : AliasMarkIncomplete(id)
    \/ \E k \in 1..Len(caller.tasks) : CallerDel(k)
    \/ CallerAppend
    \/ \E k \in 1..Len(caller.tasks), d \in Descriptions :
          CallerSetDescription(k, d)
    \/ \E k \in 1..Len(caller.tasks), b \in BOOLEAN :
          CallerSetIsComplete(k, b)
    \/ \E k \in 1..Len(caller.tasks), id \in TaskIds : CallerSetId(k, id)

SpecAlias == Init /\ [][NextAlias]_vars

\* ---------------------------------------------------------------- cli
\* src/cli/main.py and src/cli/handlers.py.  input() yields a line (a sequence
\* of characters) or raises EOFError or KeyboardInterrupt.

\* the lines typed at the menu prompt
MenuLines ==
    { <<"1">>, <<"2">>, <<"3">>, <<"4">>, <<"5">>, <<"6">>, <<"7">>,
      <<"a">>, <<"V">>, <<"u">>, <<"d">>, <<"c">>, <<"i">>, <<"x">>, <<"Q">>,
      <<" ", "2", " ">>, <<"8">>, <<"y">>, <<>> }

\* the decimal digits
Digits == <<"0", "1", "2", "3", "4", "5", "6", "7", "8", "9">>

\* the lines typed at a task id prompt: every id of TaskIds, a padded one,
\* zero, a negative number, a word and the empty line
IdLines ==
    { <<Digits[id + 1]>> : id \in TaskIds } \cup
    { <<" ", "2">>, <<"0">>, <<"-", "1">>, <<"x">>, <<>> }

\* the lines typed at the confirmation prompt of Delete Task
ConfirmLines ==
    { <<"y">>, <<"Y">>, <<" ", "Y", " ">>, <<"n">>, <<"y", "e", "s">>, <<>> }

\* the exceptions input() raises
InputErrors == {"EOFError", "KeyboardInterrupt"}

\* the names bound in the namespace of main.py: its imports and its own
\* functions
MainNames ==
    { "sys", "os", "TodoService",
      "handle_add_task", "handle_view_tasks", "handle_update_task",
      "handle_delete_task", "handle_mark_complete", "handle_mark_incomplete",
      "Colors", "print_header", "print_error",
      "clear_screen", "display_menu", "get_user_choice", "handle_choice",
      "main_loop" }

\* the exception a call of `name` from main.py raises before the callee runs
CallFromMain(name) == IF name \in MainNames THEN "none" ELSE "NameError"

\* str.lower() on the letters
UpperCase ==
    <<"A", "B", "C", "D", "E", "F", "G", "H", "I", "J", "K", "L", "M",
      "N", "O", "P", "Q", "R", "S", "T", "U", "V", "W", "X", "Y", "Z">>
LowerCase ==
    <<"a", "b", "c", "d", "e", "f", "g", "h", "i", "j", "k", "l", "m",
      "n", "o", "p", "q", "r", "s", "t", "u", "v", "w", "x", "y", "z">>
lower(s) ==
    [k \in 1..Len(s) |->
        IF \E n \in 1..26 : UpperCase[n] = s[k]
        THEN LowerCase[CHOOSE n \in 1..26 : UpperCase[n] = s[k]]
        ELSE s[k]]

\* int(text): surrounding whitespace and one sign are accepted, then decimal
\* digits only; anything else is a ValueError
IsDigits(s) ==
    /\ s # <<>>
    /\ \A k \in 1..Len(s) : \E n \in 1..10 : Digits[n] = s[k]

RECURSIVE DigitsValue(_)
DigitsValue(s) ==
    IF s = <<>> THEN 0
    ELSE 10 * DigitsValue(SubSeq(s, 1, Len(s) - 1))
         + (CHOOSE n \in 0..9 : Digits[n + 1] = s[Len(s)])

int(text) ==
    LET t == strip(text)
        signed == t # <<>> /\ Head(t) \in {"-", "+"}
        body == IF signed THEN Tail(t) ELSE t
    IN  IF ~IsDigits(body) THEN [raised |-> "ValueError", ret |-> 0]
        ELSE [raised |-> "none",
              ret |-> IF signed /\ Head(t) = "-"
                      THEN 0 - DigitsValue(body) ELSE DigitsValue(body)]

\* get_user_choice, one round of its loop: the choice returned, or <<>> when
\* the line is refused and the prompt repeats
shortcut_map(c) ==
    CASE c \in {"a", "A"} -> "1"
      [] c \in {"v", "V"} -> "2"
      [] c \in {"u", "U"} -> "3"
      [] c \in {"d", "D"} -> "4"
      [] c \in {"c", "C"} -> "5"
      [] c \in {"i", "I"} -> "6"
      [] c \in {"x", "X", "q", "Q"} -> "7"
      [] OTHER -> c

valid_choices == {"1", "2", "3", "4", "5", "6", "7"}

get_user_choice(line) ==
    LET choice == strip(line)
        mapped == IF Len(choice) = 1 THEN shortcut_map(choice[1]) ELSE ""
    IN  IF Len(choice) = 1 /\ mapped \in valid_choices
        THEN <<mapped>> ELSE <<>>

\* get_valid_description, one round of its loop: the description returned,
\* or <<>> when the line is refused and the prompt repeats
get_valid_description(line) == strip(line)

\* get_valid_task_id, one round of its loop: ok with the id returned, or the
\* error printed before the prompt repeats
get_valid_task_id(line) ==
    LET n == int(line)
    IN  IF n.raised = "ValueError"
        THEN [ok |-> FALSE, task_id |-> 0,
              out |-> <<"Please enter a valid number">>]
        ELSE IF n.ret <= 0
        THEN [ok |-> FALSE, task_id |-> 0,
              out |-> <<"Task ID must be a positive number">>]
        ELSE [ok |-> TRUE, task_id |-> n.ret, out |-> <<>>]

\* print_task(task, index): the number shown is the index when one is given,
\* the task's id otherwise
print_task(task, index) ==
    [task_num |-> IF index = 0 THEN task.id ELSE index,
     is_complete |-> task.is_complete,
     description |-> task.description]

\* handle_view_tasks: the rows printed, `for i, task in enumerate(tasks, 1)`
handle_view_tasks(tl) ==
    LET ts == get_all_tasks(tl)
    IN  [k \in 1..Len(ts) |-> print_task(ts[k], k)]

\* the test of handle_delete_task on the answer to "Delete this task? [y/N]"
confirmedUnlessNo(line) == lower(strip(line)) # <<"n">>
confirmed(line) == lower(strip(line)) = <<"y">>

\* handle_choice: where the session goes for a choice get_user_choice
\* returned, before any handler prompt
handle_choice(choice) ==
    CASE choice = "1" -> [pc |-> "add_description",
                          out |-> <<"--- Add New Task ---">>]
      [] choice = "3" -> [pc |-> "update_id", out |-> <<"--- Update Task ---">>]
      [] choice = "4" -> [pc |-> "delete_id", out |-> <<"--- Delete Task ---">>]
      [] choice = "5" -> [pc |-> "complete_id",
                          out |-> <<"--- Mark Complete ---">>]
      [] choice = "6" -> [pc |-> "incomplete_id",
                          out |-> <<"--- Mark Incomplete ---">>]
      [] choice = "7" -> [pc |-> "exited",
                          out |-> <<"Thanks for using Todo List Manager!">>]

\* the prompts inside the handlers
HandlerPrompts ==
    {"add_description", "update_id", "update_description", "delete_id",
     "delete_confirm", "complete_id", "incomplete_id"}

\* a line answers "Choose an option: "
MenuLine(line) ==
    /\ ui.pc = "menu"
    /\ LET c == get_user_choice(line)
       IN  ui' =
             IF c = <<>>
             THEN Ui("menu", 0, "menu", "line", line,
                     <<"Invalid option">>, <<>>)
             ELSE IF c[1] = "2"
             THEN LET rows == handle_view_tasks(_task_list)
                  IN  Ui("sleep", 0, "menu", "line", line,
                         IF rows = <<>>
                         THEN <<"--- Your Tasks ---", "No tasks yet!">>
                         ELSE <<"--- Your Tasks ---">>,
                         rows)
             ELSE Ui(handle_choice(c[1]).pc, 0, "menu", "line", line,
                     handle_choice(c[1]).out, <<>>)
    /\ UNCHANGED <<_task_list, last, returned, deleted, caller>>

\* Ctrl+C at "Choose an option: ": the inner except clause of main_loop
\* prints an empty line and calls print_info
MenuInterrupt ==
    /\ ui.pc = "menu"
    /\ ui' = IF CallFromMain("print_info") = "none"
             THEN Ui("menu", 0, "menu", "KeyboardInterrupt", <<>>,
                     <<"Use 'x' or '7' to exit, or press Ctrl+C again to force quit.">>,
                     <<>>)
             ELSE Ui("crashed", 0, "menu", "KeyboardInterrupt", <<>>,
                     <<"NameError: name 'print_info' is not defined">>, <<>>)
    /\ UNCHANGED <<_task_list, last, returned, deleted, caller>>

\* end of input at "Choose an option: "
MenuEOF ==
    /\ ui.pc = "menu"
    /\ ui' = Ui("exited", 0, "menu", "EOFError", <<>>, <<"Goodbye!">>, <<>>)
    /\ UNCHANGED <<_task_list, last, returned, deleted, caller>>

\* time.sleep(0.5) of handle_choice ends and main_loop shows the menu again
SleepDone ==
    /\ ui.pc = "sleep"
    /\ ui' = Ui("menu", 0, "sleep", "none", <<>>, <<"TODO LIST MANAGER">>, <<>>)
    /\ UNCHANGED <<_task_list, last, returned, deleted, caller>>

\* Ctrl+C during time.sleep(0.5): the except clause of handle_choice prints
\* an empty line and calls print_info
SleepInterrupt ==
    /\ ui.pc = "sleep"
    /\ ui' = IF CallFromMain("print_info") = "none"
             THEN Ui("menu", 0, "sleep", "KeyboardInterrupt", <<>>,
                     <<"Operation interrupted (press Enter to continue)">>,
                     <<>>)
             ELSE Ui("crashed", 0, "sleep", "KeyboardInterrupt", <<>>,
                     <<"NameError: name 'print_info' is not defined">>, <<>>)
    /\ UNCHANGED <<_task_list, last, returned, deleted, caller>>

\* EOF or Ctrl+C at a prompt of a handler: its except clause prints
\* "Operation cancelled" (print_info of handlers.py) and the handler returns
HandlerCancel(exc) ==
    /\ ui.pc \in HandlerPrompts
    /\ ui' = Ui("sleep", ui.task_id, ui.pc, exc, <<>>,
                <<"Operation cancelled">>, <<>>)
    /\ UNCHANGED <<_task_list, last, returned, deleted, caller>>

\* handle_add_task: a line answers "What needs to be done?"
AddDescription(line) ==
    /\ ui.pc = "add_description"
    /\ LET description == get_valid_description(line)
           r == add_task(_task_list, description)
       IN  /\ description = <<>> \/ _task_list._next_id <= MaxAdds
           /\ IF description = <<>>
              THEN /\ ui' = Ui("add_description", 0, ui.pc, "line", line,
                               <<"Task description cannot be empty">>, <<>>)
                   /\ UNCHANGED _task_list
              ELSE /\ _task_list' = r.self
                   /\ ui' = IF r.raised = "ValueError"
                            THEN Ui("sleep", 0, ui.pc, "line", line,
                                    <<"Description cannot be empty.">>, <<>>)
                            ELSE Ui("sleep", r.ret[1].id, ui.pc, "line", line,
                                    <<"Task added", "Task created">>, <<>>)
    /\ UNCHANGED <<last, returned, deleted, caller>>

\* the id prompt and the lookup that open the update, delete and mark
\* handlers: the prompt repeats, or the task is not found, or the handler
\* goes on with the task found
ReadTask(line) ==
    LET v == get_valid_task_id(line)
        task == get_task(_task_list, v.task_id)
    IN  IF ~v.ok THEN [go |-> "again", task_id |-> 0, out |-> v.out]
        ELSE IF task = None
        THEN [go |-> "return", task_id |-> v.task_id,
              out |-> <<"Task not found", "Use View Tasks to see all tasks">>]
        ELSE [go |-> "on", task_id |-> v.task_id, out |-> <<>>]

\* handle_update_task: a line answers "Which task to update? (ID)"
UpdateId(line) ==
    /\ ui.pc = "update_id"
    /\ LET t == ReadTask(line)
       IN  ui' = CASE t.go = "again" ->
                        Ui("update_id", 0, ui.pc, "line", line, t.out, <<>>)
                   [] t.go = "return" ->
                        Ui("sleep", t.task_id, ui.pc, "line", line, t.out, <<>>)
                   [] t.go = "on" ->
                        Ui("update_description", t.task_id, ui.pc, "line",
                           line, <<"Current">>, <<>>)
    /\ UNCHANGED <<_task_list, last, returned, deleted, caller>>

\* handle_update_task: a line answers "New description (or press Enter to
\* keep current): "
UpdateDescription(line) ==
    /\ ui.pc = "update_description"
    /\ LET description == get_valid_description(line)
           r == update_task(_task_list, ui.task_id, description)
       IN  IF description = <<>>
           THEN /\ ui' = Ui("update_description", ui.task_id, ui.pc, "line",
                            line, <<"Task description cannot be empty">>, <<>>)
                /\ UNCHANGED _task_list
           ELSE IF strip(description) = <<>>
           THEN /\ ui' = Ui("sleep", ui.task_id, ui.pc, "line", line,
                            <<"No changes made">>, <<>>)
                /\ UNCHANGED _task_list
           ELSE /\ _task_list' = r.self
                /\ ui' = Ui("sleep", ui.task_id, ui.pc, "line", line,
                            IF r.raised = "ValueError"
                            THEN <<"Operation cancelled">>
                            ELSE IF r.ret
                            THEN <<"Task updated successfully!">>
                            ELSE <<"Failed to update task">>,
                            <<>>)
    /\ UNCHANGED <<last, returned, deleted, caller>>

\* handle_delete_task: a line answers "Which task to delete? (ID)"
DeleteId(line) ==
    /\ ui.pc = "delete_id"
    /\ LET t == ReadTask(line)
       IN  ui' = CASE t.go = "again" ->
                        Ui("delete_id", 0, ui.pc, "line", line, t.out, <<>>)
                   [] t.go = "return" ->
                        Ui("sleep", t.task_id, ui.pc, "line", line, t.out, <<>>)
                   [] t.go = "on" ->
                        Ui("delete_confirm", t.task_id, ui.pc, "line", line,
                           <<"Task", "Status">>, <<>>)
    /\ UNCHANGED <<_task_list, last, returned, deleted, caller>>

\* handle_delete_task: a line answers "Delete this task? [y/N]: "
DeleteConfirm(line) ==
    /\ ui.pc = "delete_confirm"
    /\ LET r == delete_task(_task_list, ui.task_id)
       IN  IF ~confirmed(line)
           THEN /\ ui' = Ui("sleep", ui.task_id, ui.pc, "line", line,
                            <<"Cancelled - task not deleted">>, <<>>)
                /\ UNCHANGED _task_list
           ELSE /\ _task_list' = r.self
                /\ ui' = Ui("sleep", ui.task_id, ui.pc, "line", line,
                            IF r.ret THEN <<"Task deleted">>
                            ELSE <<"Failed to delete task">>,
                            <<>>)
    /\ UNCHANGED <<last, returned, deleted, caller>>

\* handle_mark_complete: a line answers "Which task is done? (ID)"
CompleteId(line) ==
    /\ ui.pc = "complete_id"
    /\ LET t == ReadTask(line)
           r == mark_complete(_task_list, t.task_id)
       IN  CASE t.go = "again" ->
                  /\ ui' = Ui("complete_id", 0, ui.pc, "line", line, t.out,
                              <<>>)
                  /\ UNCHANGED _task_list
             [] t.go = "return" ->
                  /\ ui' = Ui("sleep", t.task_id, ui.pc, "line", line, t.out,
                              <<>>)
                  /\ UNCHANGED _task_list
             [] t.go = "on" ->
                  IF get_task(_task_list, t.task_id)[1].is_complete
                  THEN /\ ui' = Ui("sleep", t.task_id, ui.pc, "line", line,
                                   <<"Task is already marked as complete">>,
                                   <<>>)
                       /\ UNCHANGED _task_list
                  ELSE /\ _task_list' = r.self
                       /\ ui' = Ui("sleep", t.task_id, ui.pc, "line", line,
                                   IF r.ret THEN <<"Marked as complete!">>
                                   ELSE <<"Failed to update task">>,
                                   <<>>)
    /\ UNCHANGED <<last, returned, deleted, caller>>

\* handle_mark_incomplete: a line answers "Which task is not done? (ID)"
IncompleteId(line) ==
    /\ ui.pc = "incomplete_id"
    /\ LET t == ReadTask(line)
           r == mark_incomplete(_task_list, t.task_id)
       IN  CASE t.go = "again" ->
                  /\ ui' = Ui("incomplete_id", 0, ui.pc, "line", line, t.out,
                              <<>>)
                  /\ UNCHANGED _task_list
             [] t.go = "return" ->
                  /\ ui' = Ui("sleep", t.task_id, ui.pc, "line", line, t.out,
                              <<>>)
                  /\ UNCHANGED _task_list
             [] t.go = "on" ->
                  IF ~get_task(_task_list, t.task_id)[1].is_complete
                  THEN /\ ui' = Ui("sleep", t.task_id, ui.pc, "line", line,
                                   <<"Task is already marked as incomplete">>,
                                   <<>>)
                       /\ UNCHANGED _task_list
                  ELSE /\ _task_list' = r.self
                       /\ ui' = Ui("sleep", t.task_id, ui.pc, "line", line,
                                   IF r.ret THEN <<"Marked as todo again">>
                                   ELSE <<"Failed to update task">>,
                                   <<>>)
    /\ UNCHANGED <<last, returned, deleted, caller>>

NextCli ==
    \/ \E line \in MenuLines : MenuLine(line)
    \/ MenuInterrupt
    \/ MenuEOF
    \/ SleepDone
    \/ SleepInterrupt
    \/ \E exc \in InputErrors : HandlerCancel(exc)
    \/ \E line \in Descriptions : AddDescription(line)
    \/ \E line \in IdLines : UpdateId(line)
    \/ \E line \in Descriptions : UpdateDescription(line)
    \/ \E line \in IdLines : DeleteId(line)
    \/ \E line \in ConfirmLines : DeleteConfirm(line)
    \/ \E line \in IdLines : CompleteId(line)
    \/ \E line \in IdLines : IncompleteId(line)

SpecCli == Init /\ [][NextCli]_vars

\* ---------------------------------------------------------------- helpers
\* the stored tasks and the counter
tasks == _task_list.tasks
next_id == _task_list._next_id

\* the ids of a list of tasks, in list order
IdsOf(ts) == [i \in 1..Len(ts) |-> ts[i].id]

\* a description that is empty or made of whitespace only
IsBlank(description) ==
    \A i \in 1..Len(description) : description[i] \in Whitespace

\* no stored task has this id
Missing(task_id) == \A i \in 1..Len(tasks) : tasks[i].id # task_id

\* the ids added so far and not deleted, in the order of their add_task calls
NotDeleted(id) == id \notin deleted
Surviving == SelectSeq(returned, NotDeleted)

\* the last call was op and it returned normally
Returned(op) == last.op = op /\ last.raised = "none"

\* ---------------------------------------------------------------- claims

\* C1: the k-th successful add_task returns the id k, so the ids returned are
\* 1, 2, 3, ... and none is returned twice, whatever was deleted in between.
C1_AddReturnsKthId ==
    /\ \A k \in 1..Len(returned) : returned[k] = k
    /\ Returned("add_task") =>
          /\ Len(last.ret_task) = 1
          /\ last.ret_task[1].id = Len(returned)

\* C1 witness: an add right after the most recently added task was deleted
C1_Witness ==
    /\ Returned("add_task")
    /\ Len(returned) >= 2
    /\ (Len(returned) - 1) \in deleted
    /\ tasks[Len(tasks)].id = Len(returned)

\* C2: the stored sequence never holds two tasks with the same id.
C2_UniqueIds ==
    \A i, j \in 1..Len(tasks) : i # j => tasks[i].id # tasks[j].id

\* C2 witness: two tasks stored, the newer one added after a deletion
C2_Witness ==
    /\ Returned("add_task")
    /\ Len(tasks) >= 2
    /\ deleted # {}

\* C3: the counter never decreases; a successful add increases it by exactly
\* one and every other call, a rejected add included, leaves it unchanged.
C3_CounterMonotone ==
    [][ /\ next_id' >= next_id
        /\ IF last'.op = "add_task" /\ last'.raised = "none"
           THEN next_id' = next_id + 1
           ELSE next_id' = next_id ]_vars

\* C3 witness: a rejected add after some successful ones
C3_Witness ==
    /\ last.op = "add_task"
    /\ last.raised = "ValueError"
    /\ next_id >= 3
    /\ deleted # {}

\* C4: get_all_tasks returns the tasks added and not yet deleted, in the order
\* in which they were added.
C4_InsertionOrder ==
    /\ IdsOf(get_all_tasks(_task_list)) = Surviving
    /\ Returned("get_all_tasks") => IdsOf(last.ret_list) = Surviving

\* C4 witness: a listing of two tasks after a deletion, an update and a
\* completion
C4_Witness ==
    /\ Returned("get_all_tasks")
    /\ Len(last.ret_list) >= 2
    /\ deleted # {}
    /\ last.ret_list[1].is_complete
    /\ last.ret_list[1].description # last.ret_list[2].description

\* C5: add_task with a non-blank description succeeds: the Task returned has
\* the description unchanged, is not complete, carries the counter's value
\* before the call, and is the new last element of the stored sequence.
C5_AddSucceeds ==
    [][ (last'.op = "add_task" /\ ~IsBlank(last'.description)) =>
          /\ last'.raised = "none"
          /\ Len(last'.ret_task) = 1
          /\ last'.ret_task[1].description = last'.description
          /\ last'.ret_task[1].is_complete = FALSE
          /\ last'.ret_task[1].id = next_id
          /\ tasks' = Append(tasks, last'.ret_task[1]) ]_vars

\* C5 witness: a padded description added behind an existing task
C5_Witness ==
    /\ Returned("add_task")
    /\ last.description = <<" ", "b", " ">>
    /\ Len(tasks) >= 2
    /\ tasks[Len(tasks)] = last.ret_task[1]

\* C6: add_task with a blank description raises ValueError and leaves the
\* store unchanged: nothing appended, no identifier consumed.
C6_AddRejectsBlank ==
    [][ (last'.op = "add_task" /\ IsBlank(last'.description)) =>
          /\ last'.raised = "ValueError"
          /\ last'.ret_task = None
          /\ _task_list' = _task_list
          /\ returned' = returned ]_vars

\* C6 witness: a whitespace-only description rejected on a non-empty store
C6_Witness ==
    /\ last.op = "add_task"
    /\ last.raised = "ValueError"
    /\ last.description = <<" ", "\t">>
    /\ Len(tasks) >= 1

\* C7: update_task with a blank description raises ValueError whether or not
\* the id exists, and leaves the store unchanged.
C7_UpdateRejectsBlank ==
    [][ (last'.op = "update_task" /\ IsBlank(last'.description)) =>
          /\ last'.raised = "ValueError"
          /\ _task_list' = _task_list ]_vars

\* C7 witness: a blank update of an id that is not stored
C7_Witness ==
    /\ last.op = "update_task"
    /\ last.raised = "ValueError"
    /\ last.description = <<" ">>
    /\ Len(tasks) >= 1
    /\ Missing(last.task_id)

\* C8: update_task of a stored id with a non-blank description returns True,
\* and get_task then yields that description with the id and the completion
\* flag the task had before.
C8_UpdateRoundTrip ==
    [][ ( /\ last'.op = "update_task"
          /\ ~IsBlank(last'.description)
          /\ ~Missing(last'.task_id) ) =>
          /\ last'.raised = "none"
          /\ last'.ret_bool = TRUE
          /\ Len(get_task(_task_list', last'.task_id)) = 1
          /\ LET old == get_task(_task_list, last'.task_id)[1]
                 new == get_task(_task_list', last'.task_id)[1]
             IN  /\ new.description = last'.description
                 /\ new.id = last'.task_id
                 /\ new.id = old.id
                 /\ new.is_complete = old.is_complete ]_vars

\* C8 witness: a completed task carries the description just written
C8_Witness ==
    /\ Returned("update_task")
    /\ last.ret_bool
    /\ Len(get_task(_task_list, last.task_id)) = 1
    /\ get_task(_task_list, last.task_id)[1].is_complete
    /\ get_task(_task_list, last.task_id)[1].description = <<" ", "b", " ">>

\* C9: for an id that is not stored, update_task (non-blank description),
\* delete_task, mark_complete and mark_incomplete return False and get_task
\* returns None; none raises and the store is unchanged.
C9_NotFound ==
    [][ ( /\ last'.op \in {"update_task", "delete_task", "mark_complete",
                           "mark_incomplete", "get_task"}
          /\ last'.op = "update_task" => ~IsBlank(last'.description)
          /\ Missing(last'.task_id) ) =>
          /\ last'.raised = "none"
          /\ last'.ret_bool = FALSE
          /\ last'.ret_task = None
          /\ _task_list' = _task_list ]_vars

\* C9 witness: deleting an id a second time while other tasks are stored
C9_Witness ==
    /\ Returned("delete_task")
    /\ ~last.ret_bool
    /\ last.task_id \in deleted
    /\ Len(tasks) >= 1

\* C10: once delete_task(id) returned True, get_task(id) is None, and stays
\* None after every later call.
C10_DeletedStaysAbsent ==
    /\ \A id \in deleted : get_task(_task_list, id) = None
    /\ (Returned("get_task") /\ last.task_id \in deleted) =>
          last.ret_task = None

\* C10 witness: a lookup of a deleted id after a later add
C10_Witness ==
    /\ Returned("get_task")
    /\ last.task_id \in deleted
    /\ Len(tasks) >= 1
    /\ tasks[Len(tasks)].id > last.task_id

\* C11: the completion flag is a two-state machine with total transitions:
\* a new task is Todo; for a stored id mark_complete returns True and leaves
\* the task Done, mark_incomplete returns True and leaves it Todo, whatever
\* the state before; a second application returns True again and changes
\* nothing.
C11_FlagMachine ==
    /\ Returned("add_task") => last.ret_task[1].is_complete = FALSE
    /\ (Returned("mark_complete") /\ last.ret_bool) =>
          get_task(_task_list, last.task_id)[1].is_complete = TRUE
    /\ (Returned("mark_incomplete") /\ last.ret_bool) =>
          get_task(_task_list, last.task_id)[1].is_complete = FALSE
    /\ \A id \in TaskIds : ~Missing(id) =>
          LET c1 == mark_complete(_task_list, id)
              c2 == mark_complete(c1.self, id)
              i1 == mark_incomplete(_task_list, id)
              i2 == mark_incomplete(i1.self, id)
          IN  /\ c1.ret = TRUE /\ c2.ret = TRUE
              /\ get_task(c1.self, id)[1].is_complete = TRUE
              /\ c2.self = c1.self
              /\ i1.ret = TRUE /\ i2.ret = TRUE
              /\ get_task(i1.self, id)[1].is_complete = FALSE
              /\ i2.self = i1.self

\* C11 witness: a task is Done after mark_complete and marking it again
\* is possible
C11_Witness ==
    /\ Returned("mark_complete")
    /\ last.ret_bool
    /\ Len(tasks) >= 2
    /\ get_task(_task_list, last.task_id)[1].is_complete

\* C13: mark_complete and mark_incomplete change nothing but the target's
\* flag: ids, descriptions, positions, the other tasks' flags, the length and
\* the counter stay as they were.
C13_MarkFrame ==
    [][ last'.op \in {"mark_complete", "mark_incomplete"} =>
          /\ next_id' = next_id
          /\ Len(tasks') = Len(tasks)
          /\ \A i \in 1..Len(tasks) :
                /\ tasks'[i].id = tasks[i].id
                /\ tasks'[i].description = tasks[i].description
                /\ tasks[i].id # last'.task_id =>
                      tasks'[i].is_complete = tasks[i].is_complete ]_vars

\* C13 witness: a task was marked Todo while another stored task is Done
C13_Witness ==
    /\ Returned("mark_incomplete")
    /\ last.ret_bool
    /\ \E i \in 1..Len(tasks) :
          tasks[i].id # last.task_id /\ tasks[i].is_complete

\* C14: a successful delete_task(id) removes exactly the task with that id:
\* the sequence is one shorter and every other task is still there, unchanged.
C14_DeleteFrame ==
    [][ (last'.op = "delete_task" /\ last'.ret_bool) =>
          /\ Len(tasks') = Len(tasks) - 1
          /\ \A i \in 1..Len(tasks') : tasks'[i].id # last'.task_id
          /\ \A i \in 1..Len(tasks) :
                tasks[i].id # last'.task_id =>
                   \E j \in 1..Len(tasks') : tasks'[j] = tasks[i] ]_vars

\* C14 witness: a task other than the last one was deleted and two remain
C14_Witness ==
    /\ Returned("delete_task")
    /\ last.ret_bool
    /\ Len(tasks) >= 2
    /\ tasks[Len(tasks)].id > last.task_id

\* C15: every stored task has a positive id and a description that is not
\* blank.
C15_StoredTasksValid ==
    \A i \in 1..Len(tasks) :
       /\ tasks[i].id > 0
       /\ ~IsBlank(tasks[i].description)

\* C15 witness: a blank update of a stored task was refused
C15_Witness ==
    /\ last.op = "update_task"
    /\ last.raised = "ValueError"
    /\ ~Missing(last.task_id)
    /\ last.description = <<" ", "\t">>

\* C20: the stored sequence is strictly ascending by id and every stored id
\* is below the counter, so the first match of a scan is the only one.
C20_AscendingBelowCounter ==
    /\ \A i \in 1..Len(tasks) : tasks[i].id < next_id
    /\ \A i, j \in 1..Len(tasks) : i < j => tasks[i].id < tasks[j].id
    /\ \A id \in TaskIds :
          Cardinality({i \in 1..Len(tasks) : tasks[i].id = id}) <= 1

\* C20 witness: non-adjacent ids stored after a deletion in the middle
C20_Witness ==
    /\ Len(tasks) >= 2
    /\ tasks[2].id > tasks[1].id + 1
    /\ Returned("get_task")
    /\ last.ret_task # None

\* C12: the collection get_all_tasks returns is a defensive copy: no mutation
\* the caller makes on it or on the Task records reachable from it changes
\* what get_all_tasks and get_task return afterwards.
C12_DefensiveCopy ==
    [][ caller'.mutations # caller.mutations =>
          /\ get_all_tasks(_task_list') = get_all_tasks(_task_list)
          /\ \A id \in TaskIds :
                get_task(_task_list', id) = get_task(_task_list, id) ]_vars

\* C16: one Ctrl+C while the menu waits for a choice does not end the
\* session: the user is told to use 'x' or '7' to exit, the menu is shown
\* again and the tasks of the service are preserved.
C16_MenuInterruptContinues ==
    [][ (ui'.at = "menu" /\ ui'.input = "KeyboardInterrupt") =>
          /\ ui'.pc = "menu"
          /\ ui'.out =
               <<"Use 'x' or '7' to exit, or press Ctrl+C again to force quit.">>
          /\ _task_list' = _task_list ]_vars

\* C17: the number View Tasks shows next to a task is the task's id, the
\* number the id prompts of the other handlers accept for that task, also
\* after deletions.
C17_ViewShowsIds ==
    (ui.at = "menu" /\ ui.pc = "sleep") =>
       /\ Len(ui.rows) = Len(tasks)
       /\ \A k \in 1..Len(ui.rows) :
             /\ ui.rows[k].task_num = tasks[k].id
             /\ get_task(_task_list, ui.rows[k].task_num) = <<tasks[k]>>

\* C18: in Update Task an empty line at the new-description prompt keeps the
\* current description, reports that no changes were made and returns to the
\* menu without calling update_task.
C18_EnterKeepsDescription ==
    [][ ( /\ ui'.at = "update_description"
          /\ ui'.input = "line"
          /\ ui'.line = <<>> ) =>
          /\ ui'.out = <<"No changes made">>
          /\ ui'.pc = "sleep"
          /\ _task_list' = _task_list ]_vars

\* the answer, trimmed and lower-cased, is "y": nothing but one y or Y
\* between whitespace
IsLetter(c) == c \notin Whitespace
IsYes(line) == SelectSeq(line, IsLetter) \in {<<"y">>, <<"Y">>}

\* C19: Delete Task removes a task only when the confirmation answer, trimmed
\* and lower-cased, is "y", and then it removes the task whose id was
\* entered; any other answer, an id not found and a cancelled prompt leave
\* the store unchanged.
C19_DeleteNeedsConfirmation ==
    [][ ui'.at \in {"delete_id", "delete_confirm"} =>
          IF ui'.at = "delete_confirm" /\ ui'.input = "line" /\ IsYes(ui'.line)
          THEN /\ Len(tasks') = Len(tasks) - 1
               /\ get_task(_task_list', ui.task_id) = None
               /\ next_id' = next_id
          ELSE _task_list' = _task_list ]_vars

\* C19 witness: a padded upper-case Y removed the task and another is left
C19_Witness ==
    /\ ui.at = "delete_confirm"
    /\ ui.line = <<" ", "Y", " ">>
    /\ ui.out = <<"Task deleted">>
    /\ Len(tasks) >= 1
    /\ get_task(_task_list, ui.task_id) = None

====
